---- MODULE Spec2Model ----
(***************************************************************************)
(* chrome-launcher/chrome-launcher.ts: one Launcher instance, the          *)
(* operating system it acts on (temporary directory, log file handles,     *)
(* pid file, child processes, probe connections) and the event loop that   *)
(* runs its promise continuations.  Every action is one run-to-completion  *)
(* segment of JavaScript: the code between two suspension points.          *)
(***************************************************************************)
EXTENDS Integers, Sequences, FiniteSets, TLC

\* ------------------------------------------------------------------ bounds
MaxCalls == 4           \* launch calls, kill calls and SIGINT deliveries in a run

\* ------------------------------------------------------- program constants
pollInterval == 500             \* private pollInterval: number = 500
RetryCeiling == 10              \* if (retries > 10) return reject(err)
SIGINT_EXIT_CODE == 130         \* const _SIGINT_EXIT_CODE = 130
Undefined == 0                  \* an optional numeric field that is not set

SUPPORTED_PLATFORMS == {"darwin", "linux", "win32"}
Platforms == SUPPORTED_PLATFORMS \cup {"sunos"}      \* process.platform
NoPath == "undefined"           \* chromePath when opts.chromePath is absent
RequestedPorts == {0, 9222}     \* opts.port; 0 asks the launcher to allocate
RandomPorts == {9223, 9224}     \* what getRandomPort() may return
Installations == {<<>>, <<"/opt/chrome", "/opt/chromium">>}

\* A command-line flag `name=value` is the pair <<name, value>>.
PortFlag == "--remote-debugging-port"
DEFAULT_FLAGS == <<<<"--disable-translate", "">>, <<"--no-first-run", "">>>>
ExtraFlags == {<<>>,                                 \* opts.chromeFlags
               <<<<"--headless", "">>>>,
               <<<<"--headless", "">>, <<PortFlag, 9333>>>>}
startingUrl == <<"about:blank", "">>                \* opts.startingUrl default

VARIABLES
    platform,       \* process.platform
    requestedPort,  \* Launcher.requestedPort
    handleSIGINT,   \* opts.handleSIGINT after defaults()
    chromeFlags,    \* Launcher.chromeFlags
    launcher,       \* the Launcher's fields
    os,             \* filesystem, child processes, probe connections
    task,           \* where the launch in flight is suspended, and its locals
    kills,          \* one record per kill() call: its promise
    hist            \* what has happened: observations, and the calls made so far

vars == <<platform, requestedPort, handleSIGINT, chromeFlags, launcher, os, task, kills, hist>>

\* The state as one record, so that a handler is a function from state to state.
World == [l |-> launcher, os |-> os, t |-> task, k |-> kills, h |-> hist]

Set(w) ==
    /\ launcher' = w.l
    /\ os' = w.os
    /\ task' = w.t
    /\ kills' = w.k
    /\ hist' = w.h
    /\ UNCHANGED <<platform, requestedPort, handleSIGINT, chromeFlags>>

isWindows == platform = "win32"

\* ------------------------------------------------------------ construction
Init ==
    /\ platform \in Platforms
    /\ requestedPort \in RequestedPorts
    /\ handleSIGINT \in BOOLEAN
    /\ chromeFlags \in ExtraFlags
    /\ \E path \in {NoPath, "/opt/chrome"} :
         launcher = [tmpDirandPidFileReady |-> FALSE,
                     TMP_PROFILE_DIR |-> Undefined,
                     outFile |-> Undefined,
                     errFile |-> Undefined,
                     pidFile |-> Undefined,
                     chromePath |-> path,
                     chrome |-> Undefined,
                     port |-> Undefined,
                     pid |-> Undefined]
    /\ os = [dirs |-> {},            \* temporary directories that exist
             made |-> 0,             \* directories makeTmpDir has created
             fds |-> {},             \* open file handles
             pidFileContent |-> Undefined,
             procs |-> <<>>,         \* child i: "running", "exited", "closed"
             stdio |-> <<>>,         \* child i: the handles it was given
             argv |-> <<>>,          \* child i: the flag sequence it was given
             killSent |-> {},        \* children the OS kill call was made on
             conn |-> 0,             \* open probe connections
             exitCode |-> Undefined] \* set by process.exit
    /\ task = [pc |-> "idle", retries |-> 0, pid |-> Undefined, timer |-> 0]
    /\ kills = <<>>
    /\ hist = [launches |-> 0,
               result |-> "none",     \* outcome of the latest launch
               errProbe |-> 0,        \* the probe whose error rejected it
               did |-> {},            \* what the latest launch has done
               probeLog |-> <<>>,     \* probes of the latest launch
               killedSinceLaunch |-> FALSE, \* a kill call since the latest launch began
               prepares |-> 0,        \* times prepare created a workspace
               teardowns |-> 0,       \* times destroyTmp tore one down
               calls |-> 0,           \* launch, kill and SIGINT so far
               handle |-> <<>>]       \* what the entry point returned

\* ----------------------------------------------------------------- helpers
Did(w, what) == [w EXCEPT !.h.did = @ \cup {what}]

\* process.exit(_SIGINT_EXIT_CODE)
exit(w) == [w EXCEPT !.os.exitCode = SIGINT_EXIT_CODE]

\* Launcher.launch's promise settles; the entry point's `await instance.launch()`
\* then returns {pid: instance.pid, port: instance.port, kill} (first launch only).
Resolve(w) ==
    [w EXCEPT !.t = [pc |-> "idle", retries |-> 0, pid |-> Undefined, timer |-> 0],
              !.h.result = "resolved",
              !.h.handle = IF w.h.launches = 1
                           THEN <<[pid |-> w.l.pid, port |-> w.l.port]>>
                           ELSE @]

Reject(w, err) ==
    [w EXCEPT !.t = [pc |-> "idle", retries |-> 0, pid |-> Undefined, timer |-> 0],
              !.h.result = err]

\* ---------------------------------------------------------- readiness probe
\* isDebuggerReady: net.createConnection(this.port)
isDebuggerReady(w, kind) ==
    Did([w EXCEPT !.os.conn = @ + 1,
                  !.h.probeLog = Append(@, [kind |-> kind, waited |-> w.t.timer]),
                  !.t.timer = 0],
        "probe")

\* variant: cleanup that leaves the connection open
cleanupKeepsOpen(w) == w

\* cleanup(client): removeAllListeners, end, destroy, unref
cleanup(w) == [w EXCEPT !.os.conn = @ - 1]

\* ------------------------------------------------------------------- spawn
\* waitUntilReady's poll(): retries++, then one probe
poll(w) == isDebuggerReady([w EXCEPT !.t.retries = @ + 1, !.t.pc = "pollProbe"], "poll")

waitUntilReady(w) == poll([w EXCEPT !.t.retries = 0])

\* variant: the port flag built from requestedPort instead of port
flagsFromRequestedPort(w) ==
    DEFAULT_FLAGS
      \o <<<<PortFlag, requestedPort>>, <<"--user-data-dir", w.l.TMP_PROFILE_DIR>>>>
      \o (IF platform = "linux" THEN <<<<"--disable-setuid-sandbox", "">>>> ELSE <<>>)
      \o chromeFlags
      \o <<startingUrl>>

\* get flags(): defaults, port, profile directory, the sandbox flag on linux,
\* the caller's flags, the starting URL
flags(w) ==
    DEFAULT_FLAGS
      \o <<<<PortFlag, w.l.port>>, <<"--user-data-dir", w.l.TMP_PROFILE_DIR>>>>
      \o (IF platform = "linux" THEN <<<<"--disable-setuid-sandbox", "">>>> ELSE <<>>)
      \o chromeFlags
      \o <<startingUrl>>

\* spawn(execPath, this.flags, {detached, stdio}); this.chrome = chrome;
\* fs.writeFileSync(this.pidFile, pid); resolve(pid); then waitUntilReady.
\* writeFileSync throws when the directory is gone: the async executor's
\* promise rejects unobserved, spawnPromise never settles and the launch
\* stays pending ("hung") with the new child already tracked.
spawnChild(w) ==
    LET child == Len(w.os.procs) + 1
        w1 == Did([w EXCEPT !.os.procs = Append(@, "running"),
                            !.os.stdio = Append(@, <<w.l.outFile, w.l.errFile>>),
                            !.os.argv = Append(@, flags(w)),
                            !.l.chrome = child],
                  "spawn")
    IN  IF w.l.pidFile \in w.os.dirs
        THEN waitUntilReady(Did([w1 EXCEPT !.os.pidFileContent = child,
                                           !.t.pid = child],
                                "pidfile"))
        ELSE [w1 EXCEPT !.t.pc = "hung"]

\* variant: spawn asking getRandomPort() whatever port was requested
spawnAlwaysRandomPort(w) ==
    IF w.l.chrome # Undefined
    THEN waitUntilReady([w EXCEPT !.t.pid = w.l.chrome])
    ELSE Did([w EXCEPT !.t.pc = "portSource"], "portSource")

\* variant: spawn without its `if (this.chrome)` guard
spawnUnguarded(w) ==
    IF requestedPort = 0
    THEN Did([w EXCEPT !.t.pc = "portSource"], "portSource")
    ELSE spawnChild(w)

\* Launcher.spawn up to its first suspension
spawn(w) ==
    IF w.l.chrome # Undefined
    THEN waitUntilReady([w EXCEPT !.t.pid = w.l.chrome])
    ELSE IF requestedPort = 0
         THEN Did([w EXCEPT !.t.pc = "portSource"], "portSource")
         ELSE spawnChild(w)

\* ----------------------------------------------------------------- prepare
\* variant: prepare without its platform check
PlatformUnchecked == TRUE

\* if (!_SUPPORTED_PLATFORMS.has(platform)) throw ...
PlatformSupported == platform \in SUPPORTED_PLATFORMS

\* variant: prepare that does not record tmpDirandPidFileReady
prepareNotRecorded(w) ==
    LET dir == w.os.made + 1
        out == 2 * dir + 1
        err == 2 * dir + 2
    IN  Did([w EXCEPT !.os.made = dir,
                      !.os.dirs = @ \cup {dir},
                      !.os.fds = @ \cup {out, err},
                      !.l.TMP_PROFILE_DIR = dir,
                      !.l.outFile = out,
                      !.l.errFile = err,
                      !.l.pidFile = dir,
                      !.h.prepares = @ + 1],
            "prepare")

\* Launcher.prepare after the platform check
prepare(w) ==
    LET dir == w.os.made + 1
        out == 2 * dir + 1
        err == 2 * dir + 2
    IN  Did([w EXCEPT !.os.made = dir,
                      !.os.dirs = @ \cup {dir},
                      !.os.fds = @ \cup {out, err},
                      !.l.TMP_PROFILE_DIR = dir,
                      !.l.outFile = out,
                      !.l.errFile = err,
                      !.l.pidFile = dir,
                      !.l.tmpDirandPidFileReady = TRUE,
                      !.h.prepares = @ + 1],
            "prepare")

\* variant: launch without its `installations.length === 0` check
InstallationsUnchecked(installations) == FALSE

\* if (installations.length === 0) throw new Error('No Chrome Installations Found')
InstallationsEmpty(installations) == Len(installations) = 0

\* installations[0], which is undefined for an empty array
First(installations) ==
    IF Len(installations) = 0 THEN NoPath ELSE installations[1]

\* chromeFinder returned: launch lines 150-157
resolved(w, installations) ==
    LET w0 == IF Len(installations) = 0 THEN Did(w, "locatorEmpty") ELSE w
    IN  IF InstallationsEmpty(installations)
        THEN Reject(w0, "NoInstallationFound")
        ELSE spawn([w0 EXCEPT !.l.chromePath = First(installations)])

\* Launcher.launch after the reuse check: lines 144-157
afterReuseCheck(w) ==
    IF ~w.l.tmpDirandPidFileReady /\ ~PlatformSupported
    THEN Reject(w, "UnsupportedPlatform")
    ELSE LET w1 == IF ~w.l.tmpDirandPidFileReady THEN prepare(w) ELSE w
         IN  IF w1.l.chromePath = NoPath
             THEN Did([w1 EXCEPT !.t.pc = "finder"], "locator")
             ELSE spawn(w1)

\* Launcher.launch up to its first suspension: lines 130-136
launch(w) ==
    LET w0 == [w EXCEPT !.h.launches = @ + 1,
                        !.h.result = "pending",
                        !.h.errProbe = 0,
                        !.h.did = {},
                        !.h.probeLog = <<>>,
                        !.h.killedSinceLaunch = FALSE,
                        !.k = [i \in 1..Len(w.k) |-> [w.k[i] EXCEPT !.roundTrip = FALSE]],
                        !.t.timer = 0]
    IN  IF requestedPort # 0
        THEN isDebuggerReady([w0 EXCEPT !.l.port = requestedPort,
                                        !.t.pc = "reuseCheck"],
                             "reuse")
        ELSE afterReuseCheck(w0)

\* -------------------------------------------------------------------- kill
\* variant: the OS-level kill call made outside any try/catch
KillErrorUncaught(threw) == threw

\* try { process.kill(-pid) | taskkill } catch (err) { log.warn(...) }:
\* whether an error of the OS-level kill call leaves kill()'s executor
KillErrorEscapes(threw) == FALSE

resolveKill(w, i) ==
    LET w1 == [w EXCEPT !.k[i].status = "resolved"]
    IN  IF w.k[i].origin = "sigint" THEN exit(w1) ELSE w1

\* Launcher.kill; `threw` is whether the OS-level kill call failed
kill(w, origin, threw) ==
    LET n == Len(w.k) + 1
        rec == [origin |-> origin,
                pid |-> w.l.chrome,
                status |-> "waitClose",
                oskill |-> "none",
                method |-> "none",
                roundTrip |-> (w.t.pc = "idle" /\ w.h.result = "resolved"
                               /\ ~w.h.killedSinceLaunch)]
        w0 == [w EXCEPT !.h.killedSinceLaunch = TRUE]
    IN  IF w.l.chrome # Undefined
        THEN LET w1 == [w0 EXCEPT
                          !.os.killSent = @ \cup {w.l.chrome},
                          !.k = Append(@, [rec EXCEPT
                                   !.oskill = IF threw THEN "threw" ELSE "sent",
                                   !.method = IF isWindows THEN "taskkill" ELSE "group"])]
             IN  IF KillErrorEscapes(threw)
                 THEN [w1 EXCEPT !.k[n].status = "rejected"]
                 ELSE [w1 EXCEPT !.l.chrome = Undefined]
        ELSE resolveKill([w0 EXCEPT !.k = Append(@, [rec EXCEPT !.pid = Undefined])], n)

\* variant: destroyTmp that resolves once the files are closed, without
\* waiting for rimraf's callback
destroyTmpResolvesEarly(w, i) ==
    IF w.l.TMP_PROFILE_DIR = Undefined
    THEN resolveKill(w, i)
    ELSE resolveKill([w EXCEPT !.os.fds = @ \ {w.l.outFile, w.l.errFile},
                               !.l.outFile = Undefined,
                               !.l.errFile = Undefined,
                               !.h.teardowns = @ + 1],
                     i)

\* variant: destroyTmp that closes outFile only
destroyTmpKeepsErrFile(w, i) ==
    IF w.l.TMP_PROFILE_DIR = Undefined
    THEN resolveKill(w, i)
    ELSE [w EXCEPT !.os.fds = @ \ {w.l.outFile},
                   !.l.outFile = Undefined,
                   !.h.teardowns = @ + 1,
                   !.k[i].status = "rimraf"]

\* Launcher.destroyTmp up to the rimraf call, run by the 'close' listener
destroyTmp(w, i) ==
    IF w.l.TMP_PROFILE_DIR = Undefined
    THEN resolveKill(w, i)
    ELSE [w EXCEPT !.os.fds = @ \ {w.l.outFile, w.l.errFile},
                   !.l.outFile = Undefined,
                   !.l.errFile = Undefined,
                   !.h.teardowns = @ + 1,
                   !.k[i].status = "rimraf"]

\* rimraf(this.TMP_PROFILE_DIR, () => resolve())
rimrafDone(w, i) ==
    resolveKill([w EXCEPT !.os.dirs = @ \ {w.l.TMP_PROFILE_DIR},
                          !.os.pidFileContent = Undefined],
                i)

\* variant: the reuse check without its `return`, falling through to prepare
reuseFallsThrough(w) == afterReuseCheck(Did(cleanup(w), "reused"))

\* the reuse check's probe connected: `return await this.isDebuggerReady()`
reuseConnected(w) == Resolve(Did(cleanup(w), "reused"))

\* a polling probe connected: waitUntilReady resolves, this.pid = pid
pollConnected(w) ==
    Resolve([cleanup(w) EXCEPT !.l.pid = w.t.pid, !.h.probeLog = <<>>])

\* variant: the ceiling compared with >= (one retry fewer)
RetriesExhaustedEarly(retries) == retries >= RetryCeiling

\* the catch of poll(): `if (retries > 10) return reject(err)`
RetriesExhausted(retries) == retries > RetryCeiling

\* a polling probe failed: reject with its error, or delay and poll again
pollFailed(w) ==
    IF RetriesExhausted(w.t.retries)
    THEN Reject([cleanup(w) EXCEPT !.h.errProbe = Len(w.h.probeLog)],
                "DebuggerNotReady")
    ELSE [cleanup(w) EXCEPT !.t.pc = "delay", !.t.timer = pollInterval]

\* ---------------------------------------------------------------- actions
Running == os.exitCode = Undefined

KillPending ==
    \E i \in 1..Len(kills) : kills[i].status \in {"waitClose", "rimraf"}

\* the caller invokes launch(), through the entry point the first time; calls
\* are sequential: no launch while a launch or a kill is still pending
CallLaunch ==
    /\ Running
    /\ task.pc = "idle"
    /\ hist.calls < MaxCalls
    /\ ~KillPending
    /\ Set(launch([World EXCEPT !.h.calls = @ + 1]))

\* the reuse-check connection emits 'connect': launch returns
ReuseConnect ==
    /\ Running
    /\ task.pc = "reuseCheck"
    /\ Set(reuseConnected(World))

\* the reuse-check connection emits 'error': fall through to prepare
ReuseError ==
    /\ Running
    /\ task.pc = "reuseCheck"
    /\ Set(afterReuseCheck(cleanup(World)))

\* chromeFinder[platform]() settles
FinderReturns ==
    /\ Running
    /\ task.pc = "finder"
    /\ \E installations \in Installations : Set(resolved(World, installations))

\* getRandomPort() settles: this.port = <port>, then spawn the child
PortReturns ==
    /\ Running
    /\ task.pc = "portSource"
    /\ \E p \in RandomPorts : Set(spawnChild([World EXCEPT !.l.port = p]))

\* a polling connection emits 'connect': this.pid = pid, launch resolves
PollConnect ==
    /\ Running
    /\ task.pc = "pollProbe"
    /\ Set(pollConnected(World))

\* a polling connection emits 'error': reject after the ceiling, else delay
PollError ==
    /\ Running
    /\ task.pc = "pollProbe"
    /\ Set(pollFailed(World))

\* delay(pollInterval) elapses: poll again
DelayFires ==
    /\ Running
    /\ task.pc = "delay"
    /\ Set(poll(World))

\* whether the OS-level kill call can fail: only once the child has exited
KillOutcomes ==
    IF launcher.chrome # Undefined /\ os.procs[launcher.chrome] # "running"
    THEN BOOLEAN
    ELSE {FALSE}

\* the caller invokes kill() (directly or through the returned handle)
CallKill ==
    /\ Running
    /\ task.pc \in {"idle", "hung"}
    /\ hist.calls < MaxCalls
    /\ \E threw \in KillOutcomes :
         Set(kill([World EXCEPT !.h.calls = @ + 1], "caller", threw))

\* SIGINT is delivered: the handler awaits kill(), then process.exit(130)
Sigint ==
    /\ Running
    /\ handleSIGINT
    /\ hist.launches > 0
    /\ hist.calls < MaxCalls
    /\ \E threw \in KillOutcomes :
         Set(kill([World EXCEPT !.h.calls = @ + 1], "sigint", threw))

\* a child process exits (on the kill signal or on its own)
ChildExits ==
    /\ Running
    /\ \E c \in 1..Len(os.procs) :
         /\ os.procs[c] = "running"
         /\ Set([World EXCEPT !.os.procs[c] = "exited"])

\* a child's 'close' event is emitted: the listener kill() registered runs
ChildCloses ==
    /\ Running
    /\ \E c \in 1..Len(os.procs) :
         /\ os.procs[c] = "exited"
         /\ LET w == [World EXCEPT !.os.procs[c] = "closed"]
                waiting == {i \in 1..Len(kills) :
                              kills[i].pid = c /\ kills[i].status = "waitClose"}
            IN  IF waiting = {}
                THEN Set(w)
                ELSE Set(destroyTmp(w, CHOOSE i \in waiting : TRUE))

\* rimraf calls back: the directory is gone, the kill promise resolves
RimrafDone ==
    /\ Running
    /\ \E i \in 1..Len(kills) :
         /\ kills[i].status = "rimraf"
         /\ Set(rimrafDone(World, i))

Next ==
    \/ CallLaunch
    \/ ReuseConnect
    \/ ReuseError
    \/ FinderReturns
    \/ PortReturns
    \/ PollConnect
    \/ PollError
    \/ DelayFires
    \/ CallKill
    \/ Sigint
    \/ ChildExits
    \/ ChildCloses
    \/ RimrafDone

Spec == Init /\ [][Next]_vars

\* a child the OS-level kill was issued on exits
KilledChildExits ==
    /\ Running
    /\ \E c \in os.killSent :
         /\ os.procs[c] = "running"
         /\ Set([World EXCEPT !.os.procs[c] = "exited"])

\* The event loop delivers every event that is ready: a killed child exits,
\* an exited child's 'close' is emitted, rimraf calls back, a connection
\* attempt settles, a timer fires.  Calls and SIGINT are never forced, and a
\* probe is not forced to connect.
FairSpec ==
    /\ Spec
    /\ WF_vars(KilledChildExits)
    /\ WF_vars(ChildCloses)
    /\ WF_vars(RimrafDone)
    /\ WF_vars(ReuseConnect \/ ReuseError)
    /\ WF_vars(PollConnect \/ PollError)
    /\ WF_vars(DelayFires)
    /\ WF_vars(FinderReturns)
    /\ WF_vars(PortReturns)

\* ================================================================== claims
LaunchEnded == hist.launches > 0 /\ task.pc = "idle"

PollProbes == {i \in 1..Len(hist.probeLog) : hist.probeLog[i].kind = "poll"}

C2_ReusePath ==
    "reused" \in hist.did =>
        /\ requestedPort # 0
        /\ LaunchEnded
        /\ hist.result = "resolved"
        /\ hist.did = {"probe", "reused"}
        /\ Len(hist.probeLog) = 1
        /\ launcher.port = requestedPort
        /\ hist.launches = 1 =>
             /\ os.made = 0 /\ os.dirs = {} /\ os.fds = {}
             /\ os.pidFileContent = Undefined
             /\ os.procs = <<>>
             /\ launcher.TMP_PROFILE_DIR = Undefined
             /\ launcher.chrome = Undefined

C2_Witness ==
    /\ "reused" \in hist.did
    /\ hist.result = "resolved"
    /\ hist.launches = 1

\* C3 (as stated) - On a platform outside {darwin, linux, win32} every launch
\* fails with UnsupportedPlatform, and when it has failed this launch has
\* created no filesystem resource and no probe connection, for every requested
\* port.
C3_NothingTouchedOnAnyPort ==
    (platform \notin SUPPORTED_PLATFORMS /\ LaunchEnded) =>
        /\ hist.result = "UnsupportedPlatform"
        /\ hist.did \cap {"probe", "prepare", "pidfile"} = {}
        /\ os.made = 0 /\ os.fds = {}

\* C3 (amended) - On a platform outside {darwin, linux, win32} a launch fails
\* with UnsupportedPlatform unless a non-zero port was requested and its
\* reuse-check probe connects (then it resolves); when it has failed no
\* filesystem resource (directory, log handle, pid file) has been created, and
\* the launch has opened no probe connection when the requested port is 0 and
\* exactly one, the reuse check, already released, when it is non-zero.
C3_UnsupportedPlatform ==
    /\ (platform \notin SUPPORTED_PLATFORMS /\ LaunchEnded) =>
          \/ hist.result = "UnsupportedPlatform"
          \/ hist.result = "resolved" /\ "reused" \in hist.did
    /\ platform \notin SUPPORTED_PLATFORMS =>
          os.made = 0 /\ os.fds = {} /\ os.procs = <<>>
    /\ hist.result = "UnsupportedPlatform" =>
          /\ platform \notin SUPPORTED_PLATFORMS
          /\ os.made = 0 /\ os.dirs = {} /\ os.fds = {}
          /\ os.pidFileContent = Undefined
          /\ hist.did \cap {"prepare", "pidfile", "spawn"} = {}
          /\ os.conn = 0
          /\ Len(hist.probeLog) = IF requestedPort = 0 THEN 0 ELSE 1
          /\ requestedPort = 0 => "probe" \notin hist.did

C3_Witness ==
    /\ hist.result = "UnsupportedPlatform"
    /\ requestedPort # 0
    /\ "probe" \in hist.did

\* C4 - No-installation case: with no executable path override, when
\* ProcessLocator returns an empty sequence the launch fails with
\* NoInstallationFound (and only then), PortSource has not been called by it
\* and it has spawned no subprocess.
C4_NoInstallation ==
    /\ "locatorEmpty" \in hist.did =>
          /\ LaunchEnded
          /\ hist.result = "NoInstallationFound"
          /\ launcher.chromePath = NoPath
          /\ hist.did \cap {"portSource", "spawn", "pidfile"} = {}
    /\ hist.result = "NoInstallationFound" => "locatorEmpty" \in hist.did

C4_Witness ==
    /\ hist.result = "NoInstallationFound"
    /\ requestedPort = 0

\* C5 - With interrupt handling enabled, whenever the program has exited with
\* status 130, every workspace directory the instance created has been removed
\* and the OS-level kill has been issued on every subprocess it spawned.
C5_InterruptTeardown ==
    os.exitCode = SIGINT_EXIT_CODE =>
        /\ os.dirs = {}
        /\ \A c \in 1..Len(os.procs) : c \in os.killSent

NoKillRejected == \A i \in 1..Len(kills) : kills[i].status # "rejected"

TrivialKillStep ==
    (Len(kills') = Len(kills) + 1 /\ launcher.chrome = Undefined) =>
        /\ kills'[Len(kills')].status = "resolved"
        /\ kills'[Len(kills')].oskill = "none"
        /\ launcher' = launcher
        /\ os'.killSent = os.killSent
        /\ os'.procs = os.procs
        /\ os'.dirs = os.dirs
        /\ os'.fds = os.fds
        /\ os'.pidFileContent = os.pidFileContent

C7_KillIdempotent == []NoKillRejected /\ [][TrivialKillStep]_vars

C7_Witness ==
    /\ Len(kills) >= 2
    /\ kills[1].origin = "caller" /\ kills[2].origin = "caller"
    /\ kills[1].oskill = "threw"
    /\ kills[1].status = "resolved"
    /\ kills[2].pid = Undefined
    /\ kills[2].status = "resolved"

\* C8 - Whenever launch has resolved, on the spawn path or on the reuse path,
\* the instance's port and pid are both defined, and so are the port and pid
\* of the handle the entry point returned.
C8_PortAndPidDefined ==
    hist.result = "resolved" =>
        /\ launcher.port # Undefined
        /\ launcher.pid # Undefined
        /\ hist.handle # <<>> =>
             hist.handle[1].port # Undefined /\ hist.handle[1].pid # Undefined

\* C9 (as stated) - Port immutability: once the instance's port is assigned, no
\* step of any launch or kill call changes it.
C9_PortNeverChanges ==
    [][launcher.port # Undefined => launcher'.port = launcher.port]_vars

\* C9 (amended) - Once the instance's port is assigned, a step changes it only
\* when the requested port is 0 and a launch spawns a new subprocess after a
\* kill has cleared the one the instance tracked: PortSource is then asked
\* again.  The port never changes when a non-zero port was requested, nor
\* while the instance tracks a subprocess (so over any sequence of launch calls
\* with no kill).
C9_PortChangesOnlyOnRespawn ==
    [][(launcher.port # Undefined /\ launcher'.port # launcher.port) =>
          /\ requestedPort = 0
          /\ launcher.chrome = Undefined
          /\ launcher'.chrome # Undefined
          /\ launcher'.port \in RandomPorts
          /\ kills # <<>>]_vars

C9_Witness ==
    /\ requestedPort = 0
    /\ launcher.port # Undefined
    /\ hist.launches >= 2
    /\ kills # <<>>
    /\ Len(os.procs) >= 2
    /\ launcher.chrome = Len(os.procs)

\* C10 - Lock-step: whenever the instance tracks a subprocess it spawned, its
\* workspace exists: the temporary directory is present and both log handles
\* are open.
C10_LockStep ==
    launcher.chrome # Undefined =>
        /\ launcher.TMP_PROFILE_DIR \in os.dirs
        /\ launcher.outFile \in os.fds
        /\ launcher.errFile \in os.fds

PortEntries(argv) == {i \in 1..Len(argv) : argv[i][1] = PortFlag}

\* C11 (as stated) - With requested port 0, the flag sequence given to every
\* spawned subprocess holds exactly one --remote-debugging-port entry, whatever
\* extra flags the caller supplied, and that entry carries the instance's port,
\* which is the port the caller is given when launch resolves.
C11_ExactlyOnePortFlag ==
    requestedPort = 0 =>
        \A c \in 1..Len(os.argv) :
            /\ Cardinality(PortEntries(os.argv[c])) = 1
            /\ c = launcher.chrome =>
                 \A i \in PortEntries(os.argv[c]) : os.argv[c][i][2] = launcher.port

\* C11 (amended) - With requested port 0, the launcher puts exactly one
\* --remote-debugging-port entry into the flag sequence of a subprocess it
\* spawns, right after the default flags, and while that subprocess is tracked
\* the entry carries the instance's port, which is the port the caller is given
\* when launch resolves.  The caller's extra flags are appended unfiltered, so
\* the sequence holds one such entry plus every one the caller supplied:
\* exactly one only when the caller supplied none.
C11_OnePortFlagFromLauncher ==
    requestedPort = 0 =>
        /\ \A c \in 1..Len(os.argv) :
             LET own == Len(DEFAULT_FLAGS) + 1
             IN  /\ own \in PortEntries(os.argv[c])
                 /\ os.argv[c][own][2] \in RandomPorts
                 /\ Cardinality(PortEntries(os.argv[c]))
                      = 1 + Cardinality(PortEntries(chromeFlags))
                 /\ \A i \in PortEntries(os.argv[c]) : i >= own
                 /\ c = launcher.chrome => os.argv[c][own][2] = launcher.port
        /\ (hist.handle # <<>> /\ hist.launches = 1 /\ launcher.chrome # Undefined) =>
             hist.handle[1].port = os.argv[launcher.chrome][Len(DEFAULT_FLAGS) + 1][2]

C11_Witness ==
    /\ requestedPort = 0
    /\ PortEntries(chromeFlags) # {}
    /\ hist.result = "resolved"
    /\ hist.handle # <<>>
    /\ launcher.chrome # Undefined

\* C12 - Every kill call eventually resolves (unless the program exits first),
\* also when the subprocess had exited and reported termination before the
\* call, so that the OS-level kill fails.
C12_KillResolves ==
    \A i \in 1..MaxCalls :
        (Len(kills) >= i) ~>
            (~Running \/ (Len(kills) >= i /\ kills[i].status = "resolved"))

\* C13 - The program never exits with code 130 while a kill started by an
\* interrupt handler is still pending (waiting for the subprocess to report
\* termination, or for the directory removal).
C13_NoExitWhileInterruptKillPending ==
    os.exitCode = SIGINT_EXIT_CODE =>
        \A i \in 1..Len(kills) :
            kills[i].origin = "sigint" => kills[i].status \notin {"waitClose", "rimraf"}

\* C14 - A kill that finds a tracked subprocess resolves only after the
\* subprocess has reported termination and, after that, the teardown has
\* finished: its promise settles in rimraf's callback, with the subprocess
\* closed, the log files closed and the directory removed; the teardown
\* starts in the step in which the subprocess reports termination.
C14_Resolved ==
    \A i \in 1..Len(kills) :
        (kills[i].pid # Undefined /\ kills[i].status = "resolved") =>
            /\ os.procs[kills[i].pid] = "closed"
            /\ launcher.TMP_PROFILE_DIR \notin os.dirs
            /\ {launcher.outFile, launcher.errFile} = {Undefined}

C14_Step ==
    /\ \A i \in 1..Len(kills) :
         /\ (kills[i].pid # Undefined /\ kills[i].status # "resolved"
               /\ kills'[i].status = "resolved") =>
                /\ kills[i].status = "rimraf"
                /\ os.procs[kills[i].pid] = "closed"
                /\ launcher.TMP_PROFILE_DIR \notin os'.dirs
         /\ (kills[i].status = "waitClose" /\ kills'[i].status # "waitClose") =>
                /\ kills'[i].status = "rimraf"
                /\ os.procs[kills[i].pid] = "exited"
                /\ os'.procs[kills[i].pid] = "closed"
    /\ \A i \in 1..Len(kills') :
         (i > Len(kills) /\ kills'[i].pid # Undefined) =>
             kills'[i].status = "waitClose"

C14_ResolvesAfterCloseAndTeardown == []C14_Resolved /\ [][C14_Step]_vars

C14_Witness ==
    \E i \in 1..Len(kills) :
        /\ kills[i].pid # Undefined
        /\ kills[i].status = "resolved"
        /\ kills[i].oskill = "sent"

\* C15 - getRandomPort() is invoked only when the requested port is 0, only on
\* the path that spawns a subprocess, at most once in a launch and exactly
\* once in a launch that spawns, and it has returned before the flags are
\* assembled and the subprocess is spawned; with a non-zero requested port it
\* is never invoked.
C15_PortSourceState ==
    /\ requestedPort # 0 => task.pc # "portSource" /\ "portSource" \notin hist.did
    /\ task.pc = "portSource" => launcher.chrome = Undefined /\ "spawn" \notin hist.did
    /\ (requestedPort = 0 /\ "spawn" \in hist.did) => "portSource" \in hist.did
    /\ ("portSource" \in hist.did /\ task.pc # "portSource" /\ hist.result # "pending") =>
           "spawn" \in hist.did

C15_PortSourceStep ==
    /\ (task'.pc = "portSource" /\ task.pc # "portSource") =>
          /\ requestedPort = 0
          /\ hist'.launches = hist.launches + 1 \/ "portSource" \notin hist.did
    /\ (task.pc = "portSource" /\ task'.pc # "portSource" /\ os'.exitCode = Undefined) =>
          /\ Len(os'.procs) = Len(os.procs) + 1
          /\ launcher'.port \in RandomPorts
          /\ os'.argv[Len(os'.procs)][Len(DEFAULT_FLAGS) + 1] = <<PortFlag, launcher'.port>>
    /\ (requestedPort = 0 /\ Len(os'.procs) > Len(os.procs)) => task.pc = "portSource"

C15_PortSourceOnlyWhenSpawning == []C15_PortSourceState /\ [][C15_PortSourceStep]_vars

C15_Witness ==
    /\ requestedPort = 0
    /\ hist.launches = 2
    /\ {"portSource", "spawn"} \subseteq hist.did
    /\ Len(os.procs) = 2

\* C16 - Double-spawn guard: a launch that reaches spawn while a subprocess is
\* tracked spawns nothing, does not ask getRandomPort(), leaves the pid file
\* alone and carries the tracked subprocess's pid, which is the pid the
\* launcher holds when that launch resolves; a subprocess is spawned only
\* while none is tracked, so sequential launches without a kill spawn at most
\* one.
TrackedKills == {i \in 1..Len(kills) : kills[i].pid # Undefined}

C16_AtMostOneSpawn ==
    /\ Len(os.procs) <= 1 + Cardinality(TrackedKills)
    /\ \A c \in 1..Len(os.procs) :
         launcher.chrome # c => \E i \in TrackedKills : kills[i].pid = c

C16_GuardStep ==
    /\ (launcher.chrome # Undefined /\ task.pc \in {"idle", "reuseCheck", "finder"}
          /\ task'.pc \notin {"idle", "reuseCheck", "finder"}) =>
          /\ task'.pc = "pollProbe"
          /\ task'.pid = launcher.chrome
          /\ launcher'.chrome = launcher.chrome
          /\ os'.procs = os.procs
          /\ os'.argv = os.argv
          /\ os'.pidFileContent = os.pidFileContent
          /\ launcher'.port = IF requestedPort # 0 THEN requestedPort ELSE launcher.port
          /\ hist'.did \cap {"portSource", "spawn", "pidfile"} = {}
    /\ Len(os'.procs) > Len(os.procs) => launcher.chrome = Undefined
    /\ (task.pc = "pollProbe" /\ hist'.result = "resolved" /\ launcher'.chrome # Undefined) =>
          launcher'.pid = launcher'.chrome

C16_DoubleSpawnGuard == []C16_AtMostOneSpawn /\ [][C16_GuardStep]_vars

C16_Witness ==
    /\ hist.launches = 3
    /\ kills = <<>>
    /\ Len(os.procs) = 1
    /\ hist.did = {"probe"}
    /\ hist.result = "resolved"
    /\ launcher.pid = launcher.chrome
    /\ os.pidFileContent = launcher.chrome

\* C17 - The workspace (temporary directory and the two log files) is prepared
\* at most once on an instance, whatever launch calls are made: one directory
\* is ever created and two files are ever opened, and that happened exactly
\* when tmpDirandPidFileReady is set.
C17_PreparedAtMostOnce ==
    /\ hist.prepares <= 1
    /\ os.made = hist.prepares
    /\ launcher.tmpDirandPidFileReady <=> hist.prepares = 1
    /\ os.dirs \subseteq {1}
    /\ os.fds \subseteq {3, 4}

C17_Witness ==
    /\ requestedPort # 0
    /\ hist.launches = 3
    /\ hist.prepares = 1
    /\ "prepare" \notin hist.did
    /\ hist.result = "DebuggerNotReady"

\* C18 - The workspace teardown (closing the log handles, removing the
\* directory) is executed at most once on an instance over any sequence of
\* launch and kill calls, and never when no workspace was created.
C18_TeardownAtMostOnce ==
    /\ hist.teardowns <= 1
    /\ hist.teardowns <= hist.prepares

\* C19 - A probe's connection is released on both outcomes before the probe
\* reports: at most one probe connection is open at any time, one is open
\* exactly while a probe awaits its outcome, so none is open when the next
\* probe starts, during the delay between probes, or once launch has resolved
\* or rejected.
C19_OneProbeConnection ==
    /\ os.conn \in {0, 1}
    /\ os.conn = 1 <=> task.pc \in {"reuseCheck", "pollProbe"}
    /\ hist.result \notin {"none", "pending"} => os.conn = 0

C19_Witness ==
    /\ hist.result = "DebuggerNotReady"
    /\ Len(hist.probeLog) > RetryCeiling
    /\ os.conn = 0

\* C20 - When launch has failed because the polling retries are exhausted, the
\* spawned subprocess is still tracked and its workspace still exists; a kill
\* the caller then makes signals the subprocess (its group, or its tree on
\* Windows), and the workspace is eventually removed (unless the program
\* exits first).
ExhaustedUnkilled == hist.result = "DebuggerNotReady" /\ ~hist.killedSinceLaunch

KillAfterExhaustion(i) ==
    /\ Len(kills) >= i
    /\ kills[i].origin = "caller"
    /\ kills[i].pid # Undefined
    /\ kills[i].status = "waitClose"
    /\ hist.result = "DebuggerNotReady"

C20_StillTracked ==
    /\ ExhaustedUnkilled =>
          /\ launcher.chrome # Undefined
          /\ launcher.TMP_PROFILE_DIR \in os.dirs
          /\ {launcher.outFile, launcher.errFile} \subseteq os.fds
    /\ \A i \in 1..Len(kills) :
          KillAfterExhaustion(i) =>
              /\ kills[i].pid \in os.killSent
              /\ kills[i].method = IF isWindows THEN "taskkill" ELSE "group"

C20_KillAfterExhaustionCleansUp ==
    /\ []C20_StillTracked
    /\ \A i \in 1..MaxCalls :
          KillAfterExhaustion(i) ~>
              (~Running \/ launcher.TMP_PROFILE_DIR \notin os.dirs)

====
